---- MODULE Spec2Model ----
(***************************************************************************)
(* Gate / CustomGate / SpecializedGate of zquantum.core.circuit.gates      *)
(* (_gate.py) together with the sympy / numpy behaviour its methods rely   *)
(* on.                                                                     *)
(*                                                                         *)
(* Numbers are fixed point: the integer v stands for v * 1e-8, so ONE is   *)
(* 1.0 and numpy's default atol (1e-8) is one unit.                        *)
(***************************************************************************)
EXTENDS Integers, Sequences, FiniteSets, Bags, TLC

VARIABLES gates, last, pair, graphs, call, heap, frame

vars == <<gates, last, pair, graphs, call, heap, frame>>

(***************************************************************************)
(* Bounds                                                                  *)
(***************************************************************************)
\* number of gate objects kept alive at the same time
MaxGates == 2

(***************************************************************************)
(* Numbers                                                                 *)
(***************************************************************************)
ONE == 10^8

\* numpy.allclose defaults: rtol = 1e-5 (as 1 / RtolInv), atol = 1e-8 (in units)
RtolInv == 10^5
Atol == 1

Abs(n) == IF n < 0 THEN -n ELSE n

Max(a, b) == IF a >= b THEN a ELSE b

RECURSIVE SumOver(_, _)
SumOver(f, S) ==
  IF S = {} THEN 0
  ELSE LET n == CHOOSE n \in S : TRUE IN f[n] + SumOver(f, S \ {n})

RECURSIVE ProdOver(_, _)
ProdOver(f, S) ==
  IF S = {} THEN 1
  ELSE LET n == CHOOSE n \in S : TRUE IN f[n] * ProdOver(f, S \ {n})

(***************************************************************************)
(* Symbolic expressions (the elements of a sympy.Matrix).                  *)
(*   num   : a number re + im*I; ex = TRUE for an exact Integer, FALSE for *)
(*           a Float                                                       *)
(*   const : an unevaluated closed form without free symbols, e.g.         *)
(*           exp(0.785398163397448*I), of value re + im*I                  *)
(*   lin   : c*(sum of syms) + re                                          *)
(*   prod  : c*(product of syms)                                           *)
(*   trig  : (re + im*I) * fn(n/2) for the one symbol n in syms            *)
(* lo = 1 marks a Float (or an expression holding one) whose 53 binary     *)
(* digits go beyond the fifteen decimal digits that str prints and that    *)
(* this fixed-point value shows; exact numbers have lo = 0.                *)
(***************************************************************************)
Names == {"theta", "phi"}

Num(re, im, ex) ==
  [h |-> "num", re |-> re, im |-> im, ex |-> ex, c |-> 0, syms |-> {}, fn |-> "",
   lo |-> 0]

Const(fn, re, im) ==
  [h |-> "const", re |-> re, im |-> im, ex |-> TRUE, c |-> 0, syms |-> {}, fn |-> fn,
   lo |-> 0]

Lin(c, syms, re) ==
  [h |-> "lin", re |-> re, im |-> 0, ex |-> TRUE, c |-> c, syms |-> syms, fn |-> "",
   lo |-> 0]

Prod(c, syms) ==
  [h |-> "prod", re |-> 0, im |-> 0, ex |-> TRUE, c |-> c, syms |-> syms, fn |-> "",
   lo |-> 0]

Trig(re, im, fn, n) ==
  [h |-> "trig", re |-> re, im |-> im, ex |-> TRUE, c |-> 0, syms |-> {n}, fn |-> fn,
   lo |-> 0]

\* e with a Float of more than fifteen significant digits in it, e.g. a Python
\* float such as np.pi / 4
LongFloat(e) == [e EXCEPT !.lo = 1]

\* the sympy class of an expression
ClassOf(e) ==
  CASE e.h = "num" ->
         IF e.im = 0 THEN (IF e.ex THEN "Integer" ELSE "Float")
         ELSE IF e.re = 0 THEN "Mul" ELSE "Add"
    [] e.h = "const" -> IF e.fn = "mul" THEN "Mul" ELSE e.fn
    [] e.h = "lin" ->
         IF Cardinality(e.syms) = 1 /\ e.re = 0
         THEN (IF e.c = 1 THEN "Symbol" ELSE "Mul")
         ELSE "Add"
    [] e.h = "prod" -> "Mul"
    [] OTHER -> IF e.re = 1 /\ e.im = 0 THEN e.fn ELSE "Mul"

\* sympy's class hierarchy
SympyNumber == {"Integer", "Float"}
SympyFunction == {"cos", "sin", "exp"}
SympyExpr == SympyNumber \cup SympyFunction \cup {"Mul", "Add", "Symbol"}

IsInstance(e, classes) == ClassOf(e) \in classes

free_symbols(e) == e.syms

\* cos(k/2) and sin(k/2) for the whole numbers k a symbol is replaced by
CosHalf(k) == IF k = 0 THEN ONE ELSE 87758256
SinHalf(k) == IF k = 0 THEN 0 ELSE 47942554

\* element.subs(symbols_map): m maps names to whole numbers
Subs(e, m) ==
  LET mapped == e.syms \cap DOMAIN m
      rest == e.syms \ DOMAIN m
  IN CASE e.h = "lin" ->
            IF rest = {}
            THEN [Num(e.re + e.c * SumOver(m, mapped) * ONE, 0, e.lo = 0)
                    EXCEPT !.lo = e.lo]
            ELSE [Lin(e.c, rest, e.re + e.c * SumOver(m, mapped) * ONE)
                    EXCEPT !.lo = e.lo]
       [] e.h = "prod" ->
            LET c2 == e.c * ProdOver(m, mapped)
            IN IF c2 = 0 THEN Num(0, 0, TRUE)
               ELSE IF rest = {} THEN Num(c2 * ONE, 0, TRUE)
               ELSE IF Cardinality(rest) = 1 THEN Lin(c2, rest, 0)
               ELSE Prod(c2, rest)
       [] e.h = "trig" ->
            IF rest = {} THEN
              LET k == m[CHOOSE n \in mapped : TRUE]
                  v == IF e.fn = "cos" THEN CosHalf(k) ELSE SinHalf(k)
              IN IF v = 0 THEN Num(0, 0, TRUE)
                 ELSE IF v = ONE /\ e.re = 1 /\ e.im = 0 THEN Num(1 * ONE, 0, TRUE)
                 ELSE Const(IF e.re = 1 /\ e.im = 0 THEN e.fn ELSE "mul",
                            e.re * v, e.im * v)
            ELSE e
       [] OTHER -> e

\* element.evalf(): exact numbers become Floats, and so do closed forms, whose
\* values (cos(1/2), exp(I*pi/4)) have more than fifteen digits
Evalf(e) ==
  CASE e.h = "num" -> [Num(e.re, e.im, FALSE) EXCEPT !.lo = e.lo]
    [] e.h = "const" -> LongFloat(Num(e.re, e.im, FALSE))
    [] OTHER -> e

\* isinstance(sympy.re(e), sympy.Number) and isinstance(sympy.im(e), sympy.Number)
ReImAreNumbers(e) == e.h = "num"

\* round(x, 16): sixteen decimals are finer than one unit
Round16(v) == v

\* sympy's ==: structural, numbers by value (two Floats digit for digit)
StructEq(x, y) ==
  IF x.h = "num" /\ y.h = "num"
  THEN x.re = y.re /\ x.im = y.im /\ x.lo = y.lo
  ELSE x = y

(***************************************************************************)
(* numpy.allclose on two complex numbers: |a - b| <= atol + rtol * |b|.    *)
(* A modulus lies between the larger and the sum of the two absolute       *)
(* parts; both bounds coincide when the number is real or imaginary.  The  *)
(* values of this model never fall between the two bounds.                 *)
(***************************************************************************)
IntMax == 2^30 + (2^30 - 1)

allclose(a, b) ==
  LET dr == Abs(a.re - b.re)
      di == Abs(a.im - b.im)
      dHi == (dr + di) - Atol
      dLo == Max(dr, di) - Atol
      bLo == Max(Abs(b.re), Abs(b.im))
      bHi == Abs(b.re) + Abs(b.im)
      limit == IntMax \div RtolInv
  IN IF dHi <= 0 THEN TRUE
     ELSE IF dLo > limit THEN FALSE
     ELSE IF dHi <= limit /\ dHi * RtolInv <= bLo THEN TRUE
     ELSE IF dLo * RtolInv > bHi THEN FALSE
     ELSE FALSE

\* complex(sympy.re(e), sympy.im(e)) raises TypeError when e has free symbols
CanConvertToComplex(e) == e.syms = {}

Bool(b) == IF b THEN "True" ELSE "False"

\* Gate.are_elements_equal; the result is "True", "False" or "TypeError"
are_elements_equal(element, another_element) ==
  IF StructEq(element, another_element) THEN "True"
  ELSE IF IsInstance(another_element, SympyNumber \cup {"Mul", "Add"})
          /\ IsInstance(another_element, SympyNumber \cup {"Mul", "Add"})
       THEN IF CanConvertToComplex(element) /\ CanConvertToComplex(another_element)
            THEN Bool(allclose(element, another_element))
            ELSE "TypeError"
  ELSE "False"

(***************************************************************************)
(* Matrices: shape and the elements in row-major order, the order in which *)
(* a sympy.Matrix is iterated and indexed by a single integer.             *)
(***************************************************************************)
Matrix(rows, cols, el) == [rows |-> rows, cols |-> cols, el |-> el]

\* the value of SpecializedGate._matrix before the first access
None == Matrix(-1, -1, <<>>)

I0 == Num(0, 0, TRUE)
I1 == Num(ONE, 0, TRUE)

\* the argument of exp is the Python complex 1j * np.pi / 4
t_matrix == Matrix(2, 2, <<I1, I0, I0, LongFloat(Const("exp", 70710678, 70710678))>>)

rx_matrix(angle) ==
  Matrix(2, 2, <<Trig(1, 0, "cos", angle), Trig(0, -1, "sin", angle),
                 Trig(0, -1, "sin", angle), Trig(1, 0, "cos", angle)>>)

cnot_matrix ==
  Matrix(4, 4, <<I1, I0, I0, I0,
                 I0, I1, I0, I0,
                 I0, I0, I0, I1,
                 I0, I0, I1, I0>>)

\* copied_matrix after the loop that evaluates its elements numerically
copied_matrix(m) == Matrix(m.rows, m.cols, [i \in DOMAIN m.el |-> Evalf(m.el[i])])

(***************************************************************************)
(* Gate                                                                    *)
(***************************************************************************)
\* a shape test that looks at the number of rows only
is_valid_operator_rows(matrix_arg, qubits) == matrix_arg.rows = 2^Len(qubits)

is_valid_operator(matrix_arg, qubits) ==
  <<matrix_arg.rows, matrix_arg.cols>> = <<2^Len(qubits), 2^Len(qubits)>>

\* a uniqueness test that compares the length of the tuple with itself
are_qubits_unique_self(qubits) == Len(qubits) = Len(qubits)

are_qubits_unique(qubits) ==
  Len(qubits) = Cardinality({qubits[i] : i \in DOMAIN qubits})

\* the free symbols of the first element only
symbolic_params_first(matrix) == free_symbols(matrix.el[1])

symbolic_params(matrix) ==
  UNION {free_symbols(matrix.el[i]) :
           i \in {j \in DOMAIN matrix.el : IsInstance(matrix.el[j], SympyExpr)}}

is_parameterized(matrix) ==
  \E i \in DOMAIN matrix.el : IsInstance(matrix.el[i], SympyExpr)

\* the subclasses of SpecializedGate and the number of qubits each acts on
SpecializedClasses == {"T", "RX", "CNOT"}

NumQubits(cls) == IF cls = "CNOT" THEN 2 ELSE 1

_create_matrix(cls) ==
  CASE cls = "T" -> t_matrix
    [] cls = "RX" -> rx_matrix("theta")
    [] OTHER -> cnot_matrix

\* a gate object: CustomGate._matrix is set by __init__, SpecializedGate._matrix
\* is None until the matrix property is first read; calls counts the calls of
\* _create_matrix made on the object
GateObject(cls, qubits, matrix) ==
  [cls |-> cls, qubits |-> qubits, _matrix |-> matrix, calls |-> 0]

\* the matrix property
matrix(g) ==
  IF g.cls # "CustomGate" /\ g._matrix = None THEN _create_matrix(g.cls) ELSE g._matrix

\* a matrix property that builds the matrix on every read
matrix_read_always(g) ==
  IF g.cls # "CustomGate"
  THEN [g EXCEPT !._matrix = _create_matrix(g.cls), !.calls = @ + 1]
  ELSE g

\* the object after one read of its matrix property
matrix_read(g) ==
  IF g.cls # "CustomGate" /\ g._matrix = None
  THEN [g EXCEPT !._matrix = _create_matrix(g.cls), !.calls = @ + 1]
  ELSE g

\* the object after a method read its matrix property, which every method that
\* reads it does more than once
Accessed(g) == matrix_read(matrix_read(g))

Min(a, b) == IF a <= b THEN a ELSE b

\* any(not are_elements_equal(e, a) for e, a in zip(m, n)), evaluated lazily:
\* "True" at the first unequal pair, "TypeError" at the first pair that raises
RECURSIVE AnyNotEqual(_, _, _)
AnyNotEqual(m, n, i) ==
  IF i > Min(Len(m.el), Len(n.el)) THEN "False"
  ELSE LET r == are_elements_equal(m.el[i], n.el[i])
       IN IF r = "True" THEN AnyNotEqual(m, n, i + 1)
          ELSE IF r = "False" THEN "True"
          ELSE r

QubitsDiffer(g, another_gate) ==
  \E i \in 1..Min(Len(g.qubits), Len(another_gate.qubits)) :
    g.qubits[i] # another_gate.qubits[i]

\* Gate.__eq__; the result is "True", "False" or "TypeError"
__eq__(g, another_gate) ==
  IF Len(g.qubits) # Len(another_gate.qubits) THEN "False"
  ELSE IF QubitsDiffer(g, another_gate) THEN "False"
  ELSE IF Len(matrix(g).el) # Len(matrix(another_gate).el) THEN "False"
  ELSE IF symbolic_params(matrix(g)) # symbolic_params(matrix(another_gate)) THEN "False"
  ELSE LET r == AnyNotEqual(matrix(g), matrix(another_gate), 1)
       IN IF r = "True" THEN "False" ELSE IF r = "False" THEN "True" ELSE r

\* __eq__ reads both matrix properties once the qubits have compared equal
EqReadsMatrices(g, another_gate) ==
  Len(g.qubits) = Len(another_gate.qubits) /\ ~QubitsDiffer(g, another_gate)

(***************************************************************************)
(* CustomGate.__init__ and Gate.evaluate as functions of their arguments   *)
(***************************************************************************)
NoGate == GateObject("", <<>>, None)

\* the outcome of CustomGate(matrix, qubits)
CustomGate(matrix_arg, qubits) ==
  IF ~is_valid_operator(matrix_arg, qubits)
  THEN [status |-> "ValueError", msg |-> "shape", gate |-> NoGate]
  ELSE IF ~are_qubits_unique(qubits)
  THEN [status |-> "ValueError", msg |-> "unique", gate |-> NoGate]
  ELSE [status |-> "ok", msg |-> "",
        gate |-> GateObject("CustomGate", qubits, copied_matrix(matrix_arg))]

\* symbol in self.symbolic_params: the set holds sympy Symbols, and a str key
\* neither hashes nor compares equal to a Symbol
KeyInParams(key, strkeys, params) == ~strkeys /\ key \in params

\* an element that is evaluated numerically without the substitution
EvaluatedElement_nosubs(element, symbols_map) ==
  LET new_element == Evalf(element)
  IN IF ReImAreNumbers(new_element)
     THEN Num(Round16(new_element.re), Round16(new_element.im), FALSE)
     ELSE new_element

\* one element of evaluated_matrix; the complex number assigned to the matrix
\* is stored as a sympy Float expression
EvaluatedElement(element, symbols_map) ==
  LET new_element == Evalf(Subs(element, symbols_map))
  IN IF ReImAreNumbers(new_element)
     THEN Num(Round16(new_element.re), Round16(new_element.im), FALSE)
     ELSE new_element

NotParameterizedWarning == "Gate is not parameterized"
MismatchWarning == "symbols not existing in the gate"

\* any(symbol not in self.symbolic_params for symbol in symbols_map)
HasUnknownSymbol(g, symbols_map, strkeys) ==
  \E key \in DOMAIN symbols_map : ~KeyInParams(key, strkeys, symbolic_params(matrix(g)))

\* evaluated_matrix after the loop over its elements
evaluated_matrix(g, symbols_map) ==
  Matrix(matrix(g).rows, matrix(g).cols,
         [i \in DOMAIN matrix(g).el |-> EvaluatedElement(matrix(g).el[i], symbols_map)])

\* the outcome of g.evaluate(symbols_map): the warnings and the outcome of the
\* constructor call that makes the returned gate
evaluate(g, symbols_map, strkeys) ==
  IF ~is_parameterized(matrix(g))
  THEN [warnings |-> {NotParameterizedWarning},
        made |-> [status |-> "ok", msg |-> "", gate |-> Accessed(g)]]
  ELSE [warnings |-> IF HasUnknownSymbol(g, symbols_map, strkeys)
                     THEN {MismatchWarning} ELSE {},
        made |-> CustomGate(evaluated_matrix(g, symbols_map), g.qubits)]

(***************************************************************************)
(* Gate.to_dict and Gate.load.  Python lists and tuples are tagged with    *)
(* their type.  The text that str gives for an expression is identified    *)
(* with the expression it spells, every Float cut to fifteen digits.       *)
(***************************************************************************)
SCHEMA_VERSION == "zapata-v1"

List(items) == [type |-> "list", items |-> items]

PyTuple(items) == [type |-> "tuple", items |-> items]

\* tuple(x) for a list or a tuple x
tuple(x) == x.items

\* str(element)
str(element) == [type |-> "str", text |-> [element EXCEPT !.lo = 0]]

\* sympy.sympify(text): a literal with a decimal point is a Float of the digits
\* written, a name is a Symbol
sympify(s) == s.text

\* the orders in which a set can be iterated
Orderings(S) ==
  {order \in [1..Cardinality(S) -> S] :
     \A i, j \in 1..Cardinality(S) : i # j => order[i] # order[j]}

\* a row taken at offset i instead of i * cols
row_unscaled(m, i) == [j \in 1..m.cols |-> m.el[i + j]]

\* matrix.row(i), rows counted from 0
row(m, i) == [j \in 1..m.cols |-> m.el[i * m.cols + j]]

\* g.to_dict(serializable); order is the order in which the set symbolic_params
\* is iterated, and str(param) of a Symbol is its name
to_dict(g, serializable, order) ==
  IF serializable
  THEN [schema |-> SCHEMA_VERSION \o "-gate",
        qubits |-> List(g.qubits),
        matrix |-> List([i \in 1..matrix(g).rows |->
                           [elements |-> List([j \in 1..matrix(g).cols |->
                                                 str(row(matrix(g), i - 1)[j])])]]),
        symbolic_params |-> List(order)]
  ELSE [schema |-> SCHEMA_VERSION \o "-gate",
        qubits |-> PyTuple(g.qubits),
        matrix |-> matrix(g),
        symbolic_params |-> symbolic_params(matrix(g))]

\* isinstance(x, sympy.Matrix), for x a sympy.Matrix or a list
IsSympyMatrix(x) == "el" \in DOMAIN x

\* sympy.Matrix(list of rows of expressions)
MatrixFromRows(rows) ==
  LET cols == IF Len(rows) = 0 THEN 0 ELSE Len(rows[1])
  IN Matrix(Len(rows), cols,
            [k \in 1..(Len(rows) * cols) |->
               rows[((k - 1) \div cols) + 1][((k - 1) % cols) + 1]])

\* the outcome of Gate.load(data) for a dictionary data
load(data) ==
  LET qubits == tuple(data.qubits)
      loaded ==
        IF ~IsSympyMatrix(data.matrix)
        THEN MatrixFromRows(
               [r \in DOMAIN data.matrix.items |->
                  [e \in DOMAIN data.matrix.items[r].elements.items |->
                     sympify(data.matrix.items[r].elements.items[e])]])
        ELSE data.matrix
  IN CustomGate(loaded, qubits)

NoDict ==
  [schema |-> "", qubits |-> List(<<>>), matrix |-> List(<<>>),
   symbolic_params |-> List(<<>>)]

(***************************************************************************)
(* Inputs                                                                  *)
(***************************************************************************)
QubitTuples == {<<>>, <<0>>, <<0, 0>>, <<0, 1>>, <<1, 0>>}

Theta == Lin(1, {"theta"}, 0)

InputElements ==
  { Num(99999, 0, FALSE), Num(100001, 0, FALSE),
    Theta, Lin(2, {"theta"}, 0), Prod(1, {"theta", "phi"}),
    LongFloat(Lin(1, {"theta"}, 78539816)) }

InputMatrices ==
  { Matrix(1, 1, <<e>>) : e \in InputElements }
  \cup { t_matrix, cnot_matrix,
         Matrix(2, 2, <<I1, Theta, I0, I1>>),
         Matrix(3, 3, <<I1, I0, I0, I0, I1, I0, I0, I0, I1>>),
         Matrix(2, 4, <<I1, I0, I0, I0, I0, I1, I0, I0>>) }

\* symbols_map: names to whole numbers
MapValues == {0, 1}
SymbolMaps == UNION { [S -> MapValues] : S \in SUBSET Names }

(***************************************************************************)
(* Python numbers and strings of zquantum.core.graph.  A number carries    *)
(* its type and its value in hundredths.  A specification string is its    *)
(* split("_"): the name type_random and the literal tokens after it; a     *)
(* literal token is its sign, its digits before the point, whether it has  *)
(* a point, and its digits after the point (in hundredths).                *)
(***************************************************************************)
Cent == 10 * 10

PyInt(n) == [type |-> "int", v |-> n * Cent]

PyFloat(c) == [type |-> "float", v |-> c]

PyBool(b) == [type |-> "bool", v |-> IF b THEN Cent ELSE 0]

PyStr(type_random, args) == [type |-> "str", type_random |-> type_random, args |-> args]

NoValue == [type |-> "NoneType", v |-> 0]

Lit(neg, whole, point, frac) == [neg |-> neg, whole |-> whole, point |-> point, frac |-> frac]

\* ast.literal_eval(token): a float if the token has a point, else an int
literal_eval(token) ==
  LET magnitude == token.whole * Cent + token.frac
      c == IF token.neg THEN -magnitude ELSE magnitude
  IN IF token.point THEN PyFloat(c) ELSE [type |-> "int", v |-> c]

\* random.uniform(a, b) = a + (b - a) * random(): a float N with a <= N <= b
\* (b <= N <= a for b < a); the end points and the middle stand for the range
uniform(a, b) == {PyFloat(a.v), PyFloat((a.v + b.v) \div 2), PyFloat(b.v)}

\* random.normalvariate(mu, sigma): any float; three values stand for the range
normalvariate(mu, sigma) ==
  {PyFloat(mu.v - sigma.v), PyFloat(mu.v), PyFloat(mu.v + sigma.v)}

\* the ints of range(*literals) for one, two or three int literals
range(literals) ==
  LET start == IF Len(literals) = 1 THEN 0 ELSE literals[1].v \div Cent
      stop == IF Len(literals) = 1 THEN literals[1].v \div Cent ELSE literals[2].v \div Cent
      step == IF Len(literals) = 3 THEN literals[3].v \div Cent ELSE 1
  IN IF step > 0
     THEN {x \in start..(stop - 1) : (x - start) % step = 0}
     ELSE {x \in (stop + 1)..start : (start - x) % (-step) = 0}

Returned(value) == [status |-> "ok", value |-> value]

Raised(error) == [status |-> error, value |-> NoValue]

\* the outcomes that generate_random_value_from_string(specs) can have
generate_random_value_from_string(specs) ==
  IF specs.type \in {"int", "float"} THEN {Returned(specs)}
  ELSE IF specs.type # "str" THEN {Raised("AssertionError")}
  ELSE LET literals == [i \in DOMAIN specs.args |-> literal_eval(specs.args[i])]
       IN CASE specs.type_random = "uniform" ->
                 IF Len(literals) < 2 THEN {Raised("IndexError")}
                 ELSE {Returned(value) : value \in uniform(literals[1], literals[2])}
            [] specs.type_random = "uniformrange" ->
                 IF \/ Len(literals) \notin 1..3
                    \/ \E i \in DOMAIN literals : literals[i].type # "int"
                 THEN {Raised("TypeError")}
                 ELSE IF Len(literals) = 3 /\ literals[3].v = 0
                 THEN {Raised("ValueError")}
                 ELSE IF range(literals) = {} THEN {Raised("IndexError")}
                 ELSE {Returned(PyInt(x)) : x \in range(literals)}
            [] specs.type_random = "choice" ->
                 IF Len(literals) = 0 THEN {Raised("IndexError")}
                 ELSE {Returned(literals[i]) : i \in DOMAIN literals}
            [] specs.type_random = "normal" ->
                 IF Len(literals) < 2 THEN {Raised("IndexError")}
                 ELSE {Returned(value) : value \in normalvariate(literals[1], literals[2])}
            [] specs.type_random = "constant" ->
                 IF Len(literals) < 1 THEN {Raised("IndexError")}
                 ELSE {Returned(literals[1])}
            [] OTHER -> {Raised("UnboundLocalError")}

(***************************************************************************)
(* networkx graphs.  nodes holds the nodes in the order they were added,   *)
(* added the edges in the order they were added, weight the 'weight'       *)
(* attribute of each edge (NoValue when the edge has none).  The order in  *)
(* which a graph reports its neighbours, and so its edges, follows from    *)
(* these orders.                                                           *)
(***************************************************************************)
\* the most edges added to one graph by hand
MaxEdges == 2

GraphNodes == {1, 2, 3}

EdgeSets(added) == {{added[i][1], added[i][2]} : i \in DOMAIN added}

Graph(multi, nodes, added, weight) ==
  [multi |-> multi, nodes |-> nodes, added |-> added, weight |-> weight]

\* nx.Graph() and nx.MultiGraph()
EmptyGraph(multi) == Graph(multi, <<>>, <<>>, [e \in {} |-> NoValue])

NodeSet(G) == {G.nodes[i] : i \in DOMAIN G.nodes}

\* G.add_node(n)
add_node(G, n) ==
  IF n \in NodeSet(G) THEN G ELSE [G EXCEPT !.nodes = Append(@, n)]

\* G.add_edge(u, v, weight=w) on a graph that has no parallel edges; w is
\* NoValue when no weight is given
add_edge(G, u, v, w) ==
  LET H == add_node(add_node(G, u), v)
      present == {u, v} \in EdgeSets(G.added)
      added == IF present THEN G.added ELSE Append(G.added, <<u, v>>)
  IN [H EXCEPT !.added = added,
               !.weight = [e \in EdgeSets(added) |->
                             IF e = {u, v}
                             THEN (IF w = NoValue /\ present THEN G.weight[e] ELSE w)
                             ELSE G.weight[e]]]

\* G.add_weighted_edges_from(triples)
RECURSIVE add_weighted_edges_from(_, _, _)
add_weighted_edges_from(G, triples, i) ==
  IF i > Len(triples) THEN G
  ELSE add_weighted_edges_from(
         add_edge(G, triples[i][1], triples[i][2], triples[i][3]), triples, i + 1)

\* the edges that the node n reports from the j-th added edge on, those to the
\* nodes already seen left out
RECURSIVE Incident(_, _, _, _)
Incident(G, n, seen, j) ==
  IF j > Len(G.added) THEN <<>>
  ELSE LET e == G.added[j]
           other == IF e[1] = n THEN e[2] ELSE e[1]
       IN IF n \in {e[1], e[2]} /\ other \notin seen
          THEN <<(<<n, other>>)>> \o Incident(G, n, seen, j + 1)
          ELSE Incident(G, n, seen, j + 1)

RECURSIVE EdgesFromNode(_, _)
EdgesFromNode(G, i) ==
  IF i > Len(G.nodes) THEN <<>>
  ELSE Incident(G, G.nodes[i], {G.nodes[k] : k \in 1..(i - 1)}, 1)
         \o EdgesFromNode(G, i + 1)

\* G.edges, as the sequence an iteration gives
edges(G) == EdgesFromNode(G, 1)

\* compare_graphs(graph1, graph2): zip stops at the shorter sequence
compare_graphs(graph1, graph2) ==
  /\ \A i \in 1..Min(Len(graph1.nodes), Len(graph2.nodes)) :
       graph1.nodes[i] = graph2.nodes[i]
  /\ \A i \in 1..Min(Len(edges(graph1)), Len(edges(graph2))) :
       edges(graph1)[i] = edges(graph2)[i]

\* x == True and x == False for a Python value x
EqualsTrue(x) == x.type # "str" /\ x.v = Cent

EqualsFalse(x) == x.type # "str" /\ x.v = 0

\* the outcomes that one element of the list weighted_edges can have
EdgeWeights(random_weights) ==
  IF EqualsTrue(random_weights)
  THEN {Returned(value) : value \in uniform(PyInt(0), PyInt(1))}
  ELSE IF EqualsFalse(random_weights) THEN {Returned(PyFloat(Cent))}
  ELSE generate_random_value_from_string(random_weights)

\* the outcomes that weight_graph_edges(graph, random_weights, seed) can have,
\* whatever the seed: the status and the graph object afterwards
weight_graph_edges(graph, random_weights) ==
  IF graph.multi THEN {[status |-> "AssertionError", graph |-> graph]}
  ELSE LET E == edges(graph)
       IN { IF \E i \in DOMAIN E : drawn[i].status # "ok"
            THEN [status |-> drawn[CHOOSE i \in DOMAIN E :
                                     /\ drawn[i].status # "ok"
                                     /\ \A k \in 1..(i - 1) : drawn[k].status = "ok"].status,
                  graph |-> graph]
            ELSE [status |-> "ok",
                  graph |-> add_weighted_edges_from(
                              graph,
                              [i \in DOMAIN E |-> <<E[i][1], E[i][2], drawn[i].value>>],
                              1)]
            : drawn \in [DOMAIN E -> EdgeWeights(random_weights)] }

(***************************************************************************)
(* The networkx generators that the module calls, and the module's         *)
(* generators built on them.  Each gives the set of outcomes it can have:  *)
(* a status and, when the status is "ok", the graph made.                  *)
(***************************************************************************)
Made(G) == [status |-> "ok", graph |-> G]

Failed(error) == [status |-> error, graph |-> EmptyGraph(FALSE)]

\* int(x) for a Python int x of the model
IntOf(x) == x.v \div Cent

\* nx.empty_graph(n): the nodes 0 .. n - 1 and no edge
empty_graph(n) == Graph(FALSE, [i \in 1..n |-> i - 1], <<>>, [e \in {} |-> NoValue])

\* itertools.combinations(range(u, stop), 2) from the pair (u, v) on
RECURSIVE combinations(_, _, _)
combinations(u, v, stop) ==
  IF u >= stop - 1 THEN <<>>
  ELSE IF v >= stop THEN combinations(u + 1, u + 2, stop)
  ELSE <<(<<u, v>>)>> \o combinations(u, v + 1, stop)

\* G.add_edges_from(pairs)
RECURSIVE add_edges_from(_, _, _)
add_edges_from(G, pairs, i) ==
  IF i > Len(pairs) THEN G
  ELSE add_edges_from(add_edge(G, pairs[i][1], pairs[i][2], NoValue), pairs, i + 1)

\* nx.complete_graph(n)
complete_graph(n) == add_edges_from(empty_graph(n), combinations(0, 1, n), 1)

\* nx.erdos_renyi_graph(n, p): each pair is joined when a draw is below p
erdos_renyi_graph(n, p) ==
  IF p.v <= 0 THEN {empty_graph(n)}
  ELSE IF p.v >= Cent THEN {complete_graph(n)}
  ELSE LET pairs == combinations(0, 1, n)
       IN {add_edges_from(empty_graph(n), SelectSeq(pairs, LAMBDA e : e \in keep), 1)
             : keep \in SUBSET {pairs[i] : i \in DOMAIN pairs}}

Degree(E, x) == Cardinality({e \in E : x \in {e[1], e[2]}})

\* the edge sets on the nodes 0 .. n - 1 in which every node has degree d
RegularEdgeSets(d, n) ==
  {E \in SUBSET {e \in (0..(n - 1)) \X (0..(n - 1)) : e[1] < e[2]} :
     \A x \in 0..(n - 1) : Degree(E, x) = d}

\* nx.random_regular_graph(d, n): the edges are kept in a set and added in the
\* order the set gives them
random_regular_graph(d, n) ==
  IF (n * d) % 2 # 0 \/ d < 0 \/ d >= n THEN {Failed("NetworkXError")}
  ELSE IF d = 0 THEN {Made(empty_graph(n))}
  ELSE {Made(add_edges_from(EmptyGraph(FALSE), order, 1))
          : order \in UNION {Orderings(E) : E \in RegularEdgeSets(d, n)}}

\* the edges of the cliques of nx.caveman_graph(l, k) from the node start on
RECURSIVE caveman_edges(_, _, _)
caveman_edges(start, l, k) ==
  IF k <= 1 \/ start >= l * k THEN <<>>
  ELSE combinations(start, start + 1, start + k) \o caveman_edges(start + k, l, k)

\* nx.caveman_graph(l, k)
caveman_graph(l, k) ==
  add_edges_from(empty_graph(l * k), caveman_edges(0, l, k), 1)

\* nx.ladder_graph(n): two paths of n nodes and the rungs between them
ladder_graph(n) ==
  add_edges_from(empty_graph(2 * n),
                 [i \in 1..(n - 1) |-> <<i - 1, i>>]
                   \o [i \in 1..(n - 1) |-> <<n + i - 1, n + i>>]
                   \o [i \in 1..n |-> <<i - 1, i - 1 + n>>],
                 1)

\* nx.barbell_graph(m1, 0): two complete graphs of m1 nodes joined by one edge
barbell_graph(m1) ==
  IF m1 < 2 THEN {Failed("NetworkXError")}
  ELSE {Made(add_edges_from(complete_graph(m1),
                            Append(combinations(m1, m1 + 1, 2 * m1), <<m1 - 1, m1>>),
                            1))}

\* generate_random_graph_erdos_renyi(num_nodes, probability, random_weights)
generate_random_graph_erdos_renyi(num_nodes, probability, random_weights) ==
  UNION {weight_graph_edges(G, random_weights)
           : G \in erdos_renyi_graph(IntOf(num_nodes), probability)}

\* the outcomes of weight_graph_edges on the outcomes made of a generator
Weighted(made, random_weights) ==
  UNION {IF m.status = "ok" THEN weight_graph_edges(m.graph, random_weights) ELSE {m}
           : m \in made}

\* generate_random_regular_graph(num_nodes, degree, random_weights)
generate_random_regular_graph(num_nodes, degree, random_weights) ==
  Weighted(random_regular_graph(IntOf(degree), IntOf(num_nodes)), random_weights)

\* generate_caveman_graph(number_of_cliques, size_of_cliques, random_weights)
generate_caveman_graph(number_of_cliques, size_of_cliques, random_weights) ==
  IF number_of_cliques.type # "int" \/ size_of_cliques.type # "int"
  THEN {Failed("TypeError")}
  ELSE weight_graph_edges(
         caveman_graph(IntOf(number_of_cliques), IntOf(size_of_cliques)), random_weights)

\* generate_ladder_graph(length_of_ladder, random_weights)
generate_ladder_graph(length_of_ladder, random_weights) ==
  IF length_of_ladder.type # "int" THEN {Failed("TypeError")}
  ELSE weight_graph_edges(ladder_graph(IntOf(length_of_ladder)), random_weights)

\* generate_barbell_graph(number_of_vertices_complete_graph, random_weights)
generate_barbell_graph(number_of_vertices_complete_graph, random_weights) ==
  IF number_of_vertices_complete_graph.type # "int" THEN {Failed("TypeError")}
  ELSE Weighted(barbell_graph(IntOf(number_of_vertices_complete_graph)), random_weights)

\* graph_specs.get(key, default)
get(graph_specs, key, default) ==
  IF key \in DOMAIN graph_specs THEN graph_specs[key] ELSE default

\* generate_graph_from_specs with 'complete' built with probability 0.0
generate_graph_from_specs_sparse(graph_specs) ==
  IF "type_graph" \notin DOMAIN graph_specs \/ "num_nodes" \notin DOMAIN graph_specs
  THEN {Failed("KeyError")}
  ELSE
    LET type_graph == graph_specs.type_graph
        num_nodes == graph_specs.num_nodes
        random_weights == get(graph_specs, "random_weights", PyBool(FALSE))
        number_of_cliques == get(graph_specs, "number_of_cliques", NoValue)
        size_of_cliques == get(graph_specs, "size_of_cliques", NoValue)
        length_of_ladder == get(graph_specs, "length_of_ladder", NoValue)
        number_of_vertices_complete_graph ==
          get(graph_specs, "number_of_vertices_complete_graph", NoValue)
    IN CASE type_graph = "erdos_renyi" ->
              IF "probability" \notin DOMAIN graph_specs THEN {Failed("KeyError")}
              ELSE UNION {IF probability.status # "ok" THEN {Failed(probability.status)}
                          ELSE generate_random_graph_erdos_renyi(
                                 num_nodes, probability.value, random_weights)
                            : probability \in
                                generate_random_value_from_string(graph_specs.probability)}
         [] type_graph = "regular" ->
              IF "degree" \notin DOMAIN graph_specs THEN {Failed("KeyError")}
              ELSE UNION {IF degree.status # "ok" THEN {Failed(degree.status)}
                          ELSE generate_random_regular_graph(
                                 num_nodes, degree.value, random_weights)
                            : degree \in
                                generate_random_value_from_string(graph_specs.degree)}
         [] type_graph = "complete" ->
              generate_random_graph_erdos_renyi(num_nodes, PyFloat(0), random_weights)
         [] type_graph = "caveman" ->
              generate_caveman_graph(number_of_cliques, size_of_cliques, random_weights)
         [] type_graph = "ladder" ->
              generate_ladder_graph(length_of_ladder, random_weights)
         [] type_graph = "barbell" ->
              generate_barbell_graph(number_of_vertices_complete_graph, random_weights)
         [] OTHER ->
              {[status |-> "NotImplementedError", graph |-> EmptyGraph(FALSE),
                args |-> <<"This type of graph is not supported: ", type_graph>>]}

\* generate_graph_from_specs(graph_specs): a dictionary is a record of the
\* keys it holds
generate_graph_from_specs(graph_specs) ==
  IF "type_graph" \notin DOMAIN graph_specs \/ "num_nodes" \notin DOMAIN graph_specs
  THEN {Failed("KeyError")}
  ELSE
    LET type_graph == graph_specs.type_graph
        num_nodes == graph_specs.num_nodes
        random_weights == get(graph_specs, "random_weights", PyBool(FALSE))
        number_of_cliques == get(graph_specs, "number_of_cliques", NoValue)
        size_of_cliques == get(graph_specs, "size_of_cliques", NoValue)
        length_of_ladder == get(graph_specs, "length_of_ladder", NoValue)
        number_of_vertices_complete_graph ==
          get(graph_specs, "number_of_vertices_complete_graph", NoValue)
    IN CASE type_graph = "erdos_renyi" ->
              IF "probability" \notin DOMAIN graph_specs THEN {Failed("KeyError")}
              ELSE UNION {IF probability.status # "ok" THEN {Failed(probability.status)}
                          ELSE generate_random_graph_erdos_renyi(
                                 num_nodes, probability.value, random_weights)
                            : probability \in
                                generate_random_value_from_string(graph_specs.probability)}
         [] type_graph = "regular" ->
              IF "degree" \notin DOMAIN graph_specs THEN {Failed("KeyError")}
              ELSE UNION {IF degree.status # "ok" THEN {Failed(degree.status)}
                          ELSE generate_random_regular_graph(
                                 num_nodes, degree.value, random_weights)
                            : degree \in
                                generate_random_value_from_string(graph_specs.degree)}
         [] type_graph = "complete" ->
              generate_random_graph_erdos_renyi(num_nodes, PyFloat(Cent), random_weights)
         [] type_graph = "caveman" ->
              generate_caveman_graph(number_of_cliques, size_of_cliques, random_weights)
         [] type_graph = "ladder" ->
              generate_ladder_graph(length_of_ladder, random_weights)
         [] type_graph = "barbell" ->
              generate_barbell_graph(number_of_vertices_complete_graph, random_weights)
         [] OTHER ->
              {[status |-> "NotImplementedError", graph |-> EmptyGraph(FALSE),
                args |-> <<"This type of graph is not supported: ", type_graph>>]}

(***************************************************************************)
(* Python objects held by reference.  heap is the sequence of the objects  *)
(* made so far, an object's address its index; a variable or an attribute  *)
(* holds an address.  frame holds the caller's variables matrix, qubits    *)
(* and gate, and what the gate held when its constructor returned.         *)
(***************************************************************************)
\* the longest list of qubits a caller grows
MaxLen == 2

Unbound == 0

Object(type, value) == [type |-> type, value |-> value]

\* a CustomGate object: the addresses its attributes qubits and _matrix hold
GateRefs(qubits, _matrix) == [qubits |-> qubits, _matrix |-> _matrix]

NoFrame ==
  [matrix |-> Unbound, qubits |-> Unbound, gate |-> GateRefs(Unbound, Unbound),
   status |-> "", built |-> [matrix |-> None, qubits |-> <<>>]]

\* Gate.__init__(self, qubits): self.qubits = qubits
Gate__init__(h, qubits) == [heap |-> h, qubits |-> qubits]

\* copy.deepcopy(x): a new object with the value of the object at x
deepcopy(h, x) == [heap |-> Append(h, h[x]), address |-> Len(h) + 1]

\* CustomGate.__init__(self, matrix, qubits) on the objects at the addresses
\* matrix and qubits of the heap h: the status, the heap afterwards and the
\* attributes of the new gate
CustomGate__init__(h, matrix_arg, qubits) ==
  LET made == CustomGate(h[matrix_arg].value, h[qubits].value)
  IN IF made.status # "ok"
     THEN [status |-> made.status, heap |-> h, gate |-> GateRefs(Unbound, Unbound)]
     ELSE LET super == Gate__init__(h, qubits)
              copy == deepcopy(super.heap, matrix_arg)
          IN [status |-> "ok",
              heap |-> [copy.heap EXCEPT ![copy.address] =
                          Object("Matrix", copied_matrix(@.value))],
              gate |-> GateRefs(super.qubits, copy.address)]

(***************************************************************************)
(* State.  gates is the bag of live gate objects (two objects of the same  *)
(* value are two copies), last is the last call with its arguments and     *)
(* outcome, pair the arguments and result of a direct call of              *)
(* are_elements_equal.                                                     *)
(***************************************************************************)
NoLast ==
  [op |-> "init", self |-> NoGate, other |-> NoGate, new |-> NoGate, made |-> FALSE,
   status |-> "ok", value |-> "", warnings |-> {}, qubits |-> <<>>, shape |-> <<0, 0>>,
   map |-> <<>>, strkeys |-> FALSE, dict |-> NoDict, serializable |-> FALSE,
   params |-> {}]

NoTree == [status |-> "", expression |-> I0, type |-> ""]

NoGraphs == <<EmptyGraph(FALSE), EmptyGraph(FALSE)>>

\* the last call of a function of zquantum.core.graph: its arguments, the nodes
\* and edges of the graph it was given as they were before the call, and its
\* outcome
NoCall ==
  [op |-> "", specs |-> NoValue, before |-> EmptyGraph(FALSE), status |-> "",
   value |-> NoValue, equal |-> FALSE, args |-> <<>>]

NoPair == [x |-> I0, y |-> I0, r |-> "", t |-> NoTree]

Put(bag, g) == bag (+) SetToBag({g})

Take(bag, g) == bag (-) SetToBag({g})

Init ==
  /\ gates = EmptyBag /\ last = NoLast /\ pair = NoPair
  /\ graphs = NoGraphs /\ call = NoCall
  /\ heap = <<>> /\ frame = NoFrame

\* CustomGate(matrix, qubits)
CustomGateInit(matrix_arg, qubits) ==
  /\ BagCardinality(gates) < MaxGates
  /\ \E made \in {CustomGate(matrix_arg, qubits)} :
        /\ gates' = IF made.status = "ok" THEN Put(gates, made.gate) ELSE gates
        /\ last' = [NoLast EXCEPT !.op = "CustomGate", !.status = made.status,
                      !.value = made.msg, !.new = made.gate,
                      !.made = (made.status = "ok"),
                      !.qubits = qubits, !.shape = <<matrix_arg.rows, matrix_arg.cols>>]
  /\ UNCHANGED <<pair, graphs, call, heap, frame>>

\* cls(qubits) for a subclass cls of SpecializedGate: SpecializedGate.__init__
SpecializedGateInit(cls, qubits) ==
  /\ BagCardinality(gates) < MaxGates
  /\ Len(qubits) = NumQubits(cls)
  /\ gates' = Put(gates, GateObject(cls, qubits, None))
  /\ last' = [NoLast EXCEPT !.op = "SpecializedGate", !.made = TRUE,
                !.new = GateObject(cls, qubits, None), !.qubits = qubits]
  /\ UNCHANGED <<pair, graphs, call, heap, frame>>

\* g == h, for one object compared with itself (same) or for two objects
Eq(g, h, same) ==
  /\ BagIn(g, gates) /\ BagIn(h, gates)
  /\ same => g = h
  /\ (~same /\ g = h) => CopiesIn(g, gates) >= 2
  /\ \E r \in {__eq__(g, h)}, reads \in {EqReadsMatrices(g, h)} :
        /\ gates' = IF ~reads THEN gates
                    ELSE IF same THEN Put(Take(gates, g), Accessed(g))
                    ELSE Put(Take(Put(Take(gates, g), Accessed(g)), h), Accessed(h))
        /\ last' = [NoLast EXCEPT !.op = "eq", !.self = g, !.other = h,
                      !.status = IF r = "TypeError" THEN "TypeError" ELSE "ok",
                      !.value = r]
  /\ UNCHANGED <<pair, graphs, call, heap, frame>>

\* g.evaluate(symbols_map), the keys of symbols_map being strs or sympy Symbols
Evaluate(g, symbols_map, strkeys) ==
  /\ BagIn(g, gates)
  /\ BagCardinality(gates) < MaxGates
  /\ symbols_map = <<>> => ~strkeys
  /\ \E out \in {evaluate(g, symbols_map, strkeys)} :
        /\ gates' = IF out.made.status = "ok"
                    THEN Put(Put(Take(gates, g), Accessed(g)), out.made.gate)
                    ELSE Put(Take(gates, g), Accessed(g))
        /\ last' = [NoLast EXCEPT !.op = "evaluate", !.self = g,
                      !.status = out.made.status, !.value = out.made.msg,
                      !.warnings = out.warnings, !.new = out.made.gate,
                      !.made = (out.made.status = "ok"),
                      !.map = symbols_map, !.strkeys = strkeys]
  /\ UNCHANGED <<pair, graphs, call, heap, frame>>

\* copy.deepcopy(g)
Deepcopy(g) ==
  /\ BagIn(g, gates)
  /\ BagCardinality(gates) < MaxGates
  /\ gates' = Put(gates, [g EXCEPT !.calls = 0])
  /\ last' = [NoLast EXCEPT !.op = "deepcopy", !.self = g,
                !.new = [g EXCEPT !.calls = 0], !.made = TRUE]
  /\ UNCHANGED <<pair, graphs, call, heap, frame>>

\* reading g.is_parameterized and g.symbolic_params
Inspect(g) ==
  /\ BagIn(g, gates)
  /\ gates' = Put(Take(gates, g), Accessed(g))
  /\ last' = [NoLast EXCEPT !.op = "inspect", !.self = g,
                !.value = Bool(is_parameterized(matrix(g))),
                !.params = symbolic_params(matrix(g))]
  /\ UNCHANGED <<pair, graphs, call, heap, frame>>

\* g.to_dict(serializable)
ToDict(g, serializable, order) ==
  /\ BagIn(g, gates)
  /\ order \in Orderings(symbolic_params(matrix(g)))
  /\ gates' = Put(Take(gates, g), Accessed(g))
  /\ last' = [NoLast EXCEPT !.op = "to_dict", !.self = g,
                !.dict = to_dict(g, serializable, order),
                !.serializable = serializable]
  /\ UNCHANGED <<pair, graphs, call, heap, frame>>

\* Gate.load(g.to_dict(serializable)); with serializable = True this is also
\* Gate.load of the file written by g.save, JSON keeping lists of integers and
\* of strings as they are
Load(g, serializable, order) ==
  /\ BagIn(g, gates)
  /\ BagCardinality(gates) < MaxGates
  /\ order \in Orderings(symbolic_params(matrix(g)))
  /\ \E data \in {to_dict(g, serializable, order)} :
       \E made \in {load(data)} :
        /\ gates' = IF made.status = "ok"
                    THEN Put(Put(Take(gates, g), Accessed(g)), made.gate)
                    ELSE Put(Take(gates, g), Accessed(g))
        /\ last' = [NoLast EXCEPT !.op = "load", !.self = g, !.dict = data,
                      !.serializable = serializable,
                      !.status = made.status, !.value = made.msg,
                      !.new = made.gate, !.made = (made.status = "ok")]
  /\ UNCHANGED <<pair, graphs, call, heap, frame>>

Next ==
  \/ \E m \in InputMatrices, q \in QubitTuples : CustomGateInit(m, q)
  \/ \E cls \in SpecializedClasses, q \in QubitTuples : SpecializedGateInit(cls, q)
  \/ \E g \in BagToSet(gates), h \in BagToSet(gates), same \in BOOLEAN : Eq(g, h, same)
  \/ \E g \in BagToSet(gates), m \in SymbolMaps, s \in BOOLEAN : Evaluate(g, m, s)
  \/ \E g \in BagToSet(gates) : Deepcopy(g)
  \/ \E g \in BagToSet(gates) : Inspect(g)
  \/ \E g \in BagToSet(gates), s \in BOOLEAN :
       \E order \in Orderings(symbolic_params(matrix(g))) : ToDict(g, s, order)
  \/ \E g \in BagToSet(gates), s \in BOOLEAN :
       \E order \in Orderings(symbolic_params(matrix(g))) : Load(g, s, order)

Spec == Init /\ [][Next]_vars

(***************************************************************************)
(* Direct calls of the static method are_elements_equal on a pair of       *)
(* expressions.                                                            *)
(***************************************************************************)
PairElements ==
  InputElements \cup {I0, I1, Evalf(I1), Lin(1, {"theta", "phi"}, 0), Num(0, ONE, FALSE), Const("exp", 70710678, 70710678), Evalf(Const("exp", 70710678, 70710678)),
                      Trig(1, 0, "cos", "theta"), Lin(1, {"phi"}, 0)}

InitElements ==
  /\ gates = EmptyBag
  /\ last = NoLast
  /\ graphs = NoGraphs
  /\ call = NoCall
  /\ heap = <<>>
  /\ frame = NoFrame
  /\ pair \in {[x |-> x, y |-> y, r |-> "", t |-> NoTree] :
                x \in PairElements, y \in PairElements}

AreElementsEqual ==
  /\ pair.r = ""
  /\ pair' = [pair EXCEPT !.r = are_elements_equal(pair.x, pair.y)]
  /\ UNCHANGED <<gates, last, graphs, call, heap, frame>>

\* expression_tree_from_sympy(expression): a singledispatch function for which
\* no implementation is registered, so that every call runs the default one
expression_tree_from_sympy(expression) ==
  [status |-> "NotImplementedError", expression |-> expression,
   type |-> ClassOf(expression)]

ExpressionTreeFromSympy ==
  /\ pair.t = NoTree
  /\ pair' = [pair EXCEPT !.t = expression_tree_from_sympy(pair.x)]
  /\ UNCHANGED <<gates, last, graphs, call, heap, frame>>

NextElements == AreElementsEqual \/ ExpressionTreeFromSympy

SpecElements == InitElements /\ [][NextElements]_vars

(***************************************************************************)
(* Graphs built by hand, as the tests build them, compared and weighted.   *)
(* graphs[1] and graphs[2] are two graph objects.                          *)
(***************************************************************************)
\* 'uniform_-1_-0.5'
UniformSpec == PyStr("uniform", <<Lit(TRUE, 1, FALSE, 0), Lit(TRUE, 0, TRUE, 50)>>)

\* False, True, 'uniform_-1_-0.5', 'uniform' (the value the tests pass) and a
\* distribution the function does not know
WeightSpecs ==
  { PyBool(FALSE), PyBool(TRUE), UniformSpec, PyStr("uniform", <<>>),
    PyStr("gaussian", <<Lit(FALSE, 0, FALSE, 0), Lit(FALSE, 1, FALSE, 0)>>) }

InitGraph ==
  /\ gates = EmptyBag /\ last = NoLast /\ pair = NoPair
  /\ graphs = NoGraphs /\ call = NoCall
  /\ heap = <<>> /\ frame = NoFrame

\* graphs[k] = nx.Graph() or nx.MultiGraph()
NewGraph(k, multi) ==
  /\ multi => k = 1
  /\ graphs' = [graphs EXCEPT ![k] = EmptyGraph(multi)]
  /\ call' = NoCall
  /\ UNCHANGED <<gates, last, pair, heap, frame>>

\* graphs[k].add_edge(u, v) for an edge the graph does not have yet
AddEdge(k, u, v) ==
  /\ u # v
  /\ Len(graphs[k].added) < MaxEdges
  /\ {u, v} \notin EdgeSets(graphs[k].added)
  /\ graphs' = [graphs EXCEPT ![k] = add_edge(graphs[k], u, v, NoValue)]
  /\ call' = NoCall
  /\ UNCHANGED <<gates, last, pair, heap, frame>>

\* compare_graphs(graphs[i], graphs[j])
CompareGraphs(i, j) ==
  /\ call' = [NoCall EXCEPT !.op = "compare_graphs", !.args = <<i, j>>,
                !.status = "ok", !.equal = compare_graphs(graphs[i], graphs[j])]
  /\ UNCHANGED <<gates, last, pair, graphs, heap, frame>>

\* weight_graph_edges(graphs[1], random_weights, seed), which updates and
\* returns the graph it is given
WeightGraphEdges(random_weights) ==
  /\ \E outcome \in weight_graph_edges(graphs[1], random_weights) :
       /\ graphs' = [graphs EXCEPT ![1] = outcome.graph]
       /\ call' = [NoCall EXCEPT !.op = "weight_graph_edges",
                     !.specs = random_weights,
                     !.before = [graphs[1] EXCEPT
                                   !.weight = [e \in DOMAIN @ |-> NoValue]],
                     !.status = outcome.status]
  /\ UNCHANGED <<gates, last, pair, heap, frame>>

NextGraph ==
  \/ \E k \in 1..2, multi \in BOOLEAN : NewGraph(k, multi)
  \/ \E k \in 1..2, u \in GraphNodes, v \in GraphNodes : AddEdge(k, u, v)
  \/ \E i \in 1..2 : CompareGraphs(i, 3 - i)
  \/ \E random_weights \in WeightSpecs : WeightGraphEdges(random_weights)

SpecGraph == InitGraph /\ [][NextGraph]_vars

(***************************************************************************)
(* Values and graphs generated from specifications, one call at a time:    *)
(* call is the call with its outcome, graphs[1] the graph it returned (the *)
(* empty graph when it returned none).                                     *)
(***************************************************************************)
Token(n) == Lit(FALSE, n, FALSE, 0)

FloatToken(whole, frac) == Lit(FALSE, whole, TRUE, frac)

\* 'gaussian_0_1': a distribution the function does not know
GaussianSpec == PyStr("gaussian", <<Token(0), Token(1)>>)

\* 3, 0.5, True, and the strings 'uniform_-1_-0.5', 'uniform_0_1', 'uniform',
\* 'uniformrange_1_4', 'uniformrange_3', 'uniformrange_0_6_2',
\* 'uniformrange_5_5', 'uniformrange_0.5_2', 'choice_5_6_7',
\* 'choice_5._6._7.', 'choice', 'normal_0_1', 'constant_2', 'constant_2.5',
\* 'constant', 'gaussian_0_1'
ValueSpecs ==
  { PyInt(3), PyFloat(50), PyBool(TRUE), UniformSpec,
    PyStr("uniform", <<Token(0), Token(1)>>),
    PyStr("uniform", <<>>),
    PyStr("uniformrange", <<Token(1), Token(4)>>),
    PyStr("uniformrange", <<Token(3)>>),
    PyStr("uniformrange", <<Token(0), Token(6), Token(2)>>),
    PyStr("uniformrange", <<Token(5), Token(5)>>),
    PyStr("uniformrange", <<FloatToken(0, 50), Token(2)>>),
    PyStr("choice", <<Token(5), Token(6), Token(7)>>),
    PyStr("choice", <<FloatToken(5, 0), FloatToken(6, 0), FloatToken(7, 0)>>),
    PyStr("choice", <<>>),
    PyStr("normal", <<Token(0), Token(1)>>),
    PyStr("constant", <<Token(2)>>),
    PyStr("constant", <<FloatToken(2, 50)>>),
    PyStr("constant", <<>>),
    GaussianSpec }

\* the dictionaries given to generate_graph_from_specs
GraphSpecs ==
  { [type_graph |-> "erdos_renyi", num_nodes |-> PyInt(3), probability |-> PyFloat(Cent)],
    [type_graph |-> "erdos_renyi", num_nodes |-> PyInt(3),
     probability |-> PyStr("uniform", <<Token(0), Token(1)>>)],
    [type_graph |-> "erdos_renyi", num_nodes |-> PyInt(3), probability |-> GaussianSpec],
    [type_graph |-> "erdos_renyi", num_nodes |-> PyInt(3)],
    [type_graph |-> "regular", num_nodes |-> PyInt(4), degree |-> PyInt(2)],
    [type_graph |-> "regular", num_nodes |-> PyInt(4),
     degree |-> PyStr("choice", <<Token(1), Token(2)>>)],
    [type_graph |-> "regular", num_nodes |-> PyInt(3), degree |-> PyInt(1)],
    [type_graph |-> "regular", num_nodes |-> PyInt(4)],
    [type_graph |-> "complete", num_nodes |-> PyInt(4)],
    [type_graph |-> "complete", num_nodes |-> PyInt(3), random_weights |-> PyBool(TRUE)],
    [type_graph |-> "complete", num_nodes |-> PyInt(3), random_weights |-> UniformSpec],
    [type_graph |-> "complete", num_nodes |-> PyInt(3), random_weights |-> GaussianSpec],
    [type_graph |-> "complete", num_nodes |-> PyInt(3), weights |-> PyStr("uniform", <<>>)],
    [type_graph |-> "caveman", num_nodes |-> PyInt(4),
     number_of_cliques |-> PyInt(2), size_of_cliques |-> PyInt(2)],
    [type_graph |-> "caveman", num_nodes |-> PyInt(6),
     number_of_cliques |-> PyInt(2), size_of_cliques |-> PyInt(3)],
    [type_graph |-> "caveman", num_nodes |-> PyInt(4)],
    [type_graph |-> "ladder", num_nodes |-> PyInt(4), length_of_ladder |-> PyInt(2)],
    [type_graph |-> "ladder", num_nodes |-> PyInt(6), length_of_ladder |-> PyInt(3)],
    [type_graph |-> "ladder", num_nodes |-> PyInt(4)],
    [type_graph |-> "barbell", num_nodes |-> PyInt(4),
     number_of_vertices_complete_graph |-> PyInt(2)],
    [type_graph |-> "barbell", num_nodes |-> PyInt(6),
     number_of_vertices_complete_graph |-> PyInt(3)],
    [type_graph |-> "barbell", num_nodes |-> PyInt(2),
     number_of_vertices_complete_graph |-> PyInt(1)],
    [type_graph |-> "barbell", num_nodes |-> PyInt(4)],
    [type_graph |-> "star", num_nodes |-> PyInt(3)],
    [type_graph |-> "star", num_nodes |-> PyInt(3), random_weights |-> GaussianSpec],
    [type_graph |-> "", num_nodes |-> PyInt(3)],
    [type_graph |-> "star"],
    [num_nodes |-> PyInt(3)] }

\* generate_random_value_from_string(specs)
GenerateRandomValueFromString(specs) ==
  /\ \E outcome \in generate_random_value_from_string(specs) :
       call' = [NoCall EXCEPT !.op = "generate_random_value_from_string",
                  !.specs = specs, !.status = outcome.status, !.value = outcome.value]
  /\ graphs' = NoGraphs
  /\ UNCHANGED <<gates, last, pair, heap, frame>>

\* generate_graph_from_specs(graph_specs)
GenerateGraphFromSpecs(graph_specs) ==
  /\ \E outcome \in generate_graph_from_specs(graph_specs) :
       /\ graphs' = [NoGraphs EXCEPT ![1] = IF outcome.status = "ok"
                                             THEN outcome.graph
                                             ELSE EmptyGraph(FALSE)]
       /\ call' = [NoCall EXCEPT !.op = "generate_graph_from_specs",
                     !.specs = graph_specs, !.status = outcome.status,
                     !.args = IF "args" \in DOMAIN outcome THEN outcome.args ELSE <<>>]
  /\ UNCHANGED <<gates, last, pair, heap, frame>>

NextSpecs ==
  \/ \E specs \in ValueSpecs : GenerateRandomValueFromString(specs)
  \/ \E graph_specs \in GraphSpecs : GenerateGraphFromSpecs(graph_specs)

SpecSpecs == InitGraph /\ [][NextSpecs]_vars

(***************************************************************************)
(* A caller that makes a matrix and a sequence of qubits, builds a         *)
(* CustomGate from them and goes on changing its own two objects.          *)
(***************************************************************************)
\* sympy.Matrix([[1]]) and sympy.Matrix([[1, theta], [0, 1]])
CallerMatrices == {Matrix(1, 1, <<I1>>), Matrix(2, 2, <<I1, Theta, I0, I1>>)}

InitCaller ==
  /\ gates = EmptyBag /\ last = NoLast /\ pair = NoPair
  /\ graphs = NoGraphs /\ call = NoCall
  /\ heap = <<>> /\ frame = NoFrame

\* matrix = sympy.Matrix(...)
NewMatrix(m) ==
  /\ frame.matrix = Unbound
  /\ heap' = Append(heap, Object("Matrix", m))
  /\ frame' = [frame EXCEPT !.matrix = Len(heap) + 1]
  /\ UNCHANGED <<gates, last, pair, graphs, call>>

\* qubits = [...] or qubits = (...)
NewQubits(type, q) ==
  /\ frame.qubits = Unbound
  /\ heap' = Append(heap, Object(type, q))
  /\ frame' = [frame EXCEPT !.qubits = Len(heap) + 1]
  /\ UNCHANGED <<gates, last, pair, graphs, call>>

\* gate = CustomGate(matrix, qubits)
Construct ==
  /\ frame.matrix # Unbound /\ frame.qubits # Unbound /\ frame.status = ""
  /\ \E made \in {CustomGate__init__(heap, frame.matrix, frame.qubits)} :
       /\ heap' = made.heap
       /\ frame' = [frame EXCEPT
                      !.status = made.status,
                      !.gate = made.gate,
                      !.built = IF made.status = "ok"
                                THEN [matrix |-> made.heap[made.gate._matrix].value,
                                      qubits |-> made.heap[made.gate.qubits].value]
                                ELSE @]
  /\ UNCHANGED <<gates, last, pair, graphs, call>>

\* matrix[i] = x, with the index counted from one
SetMatrixElement(i, x) ==
  /\ frame.matrix # Unbound
  /\ i \in DOMAIN heap[frame.matrix].value.el
  /\ heap' = [heap EXCEPT ![frame.matrix].value.el[i] = x]
  /\ UNCHANGED <<gates, last, pair, graphs, call, frame>>

\* qubits.append(x)
AppendQubit(x) ==
  /\ frame.qubits # Unbound
  /\ heap[frame.qubits].type = "list"
  /\ Len(heap[frame.qubits].value) < MaxLen
  /\ heap' = [heap EXCEPT ![frame.qubits].value = Append(@, x)]
  /\ UNCHANGED <<gates, last, pair, graphs, call, frame>>

\* qubits[i] = x, with the index counted from one
SetQubit(i, x) ==
  /\ frame.qubits # Unbound
  /\ heap[frame.qubits].type = "list"
  /\ i \in DOMAIN heap[frame.qubits].value
  /\ heap' = [heap EXCEPT ![frame.qubits].value[i] = x]
  /\ UNCHANGED <<gates, last, pair, graphs, call, frame>>

\* qubits.pop()
PopQubit ==
  /\ frame.qubits # Unbound
  /\ heap[frame.qubits].type = "list"
  /\ heap[frame.qubits].value # <<>>
  /\ heap' = [heap EXCEPT ![frame.qubits].value = SubSeq(@, 1, Len(@) - 1)]
  /\ UNCHANGED <<gates, last, pair, graphs, call, frame>>

NextCaller ==
  \/ \E m \in CallerMatrices : NewMatrix(m)
  \/ \E type \in {"list", "tuple"}, q \in QubitTuples : NewQubits(type, q)
  \/ Construct
  \/ \E i \in 1..4, x \in {I0, Theta} : SetMatrixElement(i, x)
  \/ \E x \in 0..1 : AppendQubit(x)
  \/ \E i \in 1..MaxLen, x \in 0..1 : SetQubit(i, x)
  \/ PopQubit

SpecCaller == InitCaller /\ [][NextCaller]_vars

(***************************************************************************)
(* Properties                                                              *)
(***************************************************************************)
NoRepeat(q) == \A i \in DOMAIN q, j \in DOMAIN q : i # j => q[i] # q[j]

SquareOfSide(shape, n) == shape[1] = shape[2] /\ shape[1] = 2^n

C2_RepeatedQubitsRejected ==
  last.op = "CustomGate" =>
    /\ ~NoRepeat(last.qubits) => (last.status = "ValueError" /\ ~last.made)
    /\ last.value = "unique" <=>
         (SquareOfSide(last.shape, Len(last.qubits)) /\ ~NoRepeat(last.qubits))

\* qubits (0, 0) with a valid 4x4 matrix were rejected
C2_Witness ==
  /\ last.op = "CustomGate" /\ last.qubits = <<0, 0>> /\ last.shape = <<4, 4>>
  /\ last.status = "ValueError" /\ last.value = "unique"

ValidGate(g) ==
  /\ NoRepeat(g.qubits)
  /\ SquareOfSide(<<matrix(g).rows, matrix(g).cols>>, Len(g.qubits))

\* C3: every live gate object, of any class, has pairwise distinct qubits and a
\* square matrix of side 2^len(qubits).
C3_EveryGateValid == \A g \in BagToSet(gates) : ValidGate(g)

\* the conditions under which two gates are equal
EqualityConditions(a, b) ==
  /\ Len(a.qubits) = Len(b.qubits)
  /\ \A i \in DOMAIN a.qubits : a.qubits[i] = b.qubits[i]
  /\ Len(matrix(a).el) = Len(matrix(b).el)
  /\ symbolic_params(matrix(a)) = symbolic_params(matrix(b))
  /\ \A i \in DOMAIN matrix(a).el :
       are_elements_equal(matrix(a).el[i], matrix(b).el[i]) = "True"

\* C4: a == b is true when the qubit counts, the qubits position by position, the
\* element counts and the symbolic_params agree and every pair of corresponding
\* elements is equal under are_elements_equal, and false in every other case.
C4_EqIffConditions ==
  last.op = "eq" =>
    IF EqualityConditions(last.self, last.other)
    THEN last.value = "True" ELSE last.value = "False"

NumericLike(e) == ClassOf(e) \in {"Integer", "Float", "Mul", "Add"}

\* C5: are_elements_equal returns true for structurally equal arguments and for
\* two numeric-like arguments whose values agree within tolerance, and returns
\* false for every structurally different pair in which an argument has a free
\* symbol.
C5_ElementsEqual ==
  pair.r # "" =>
    /\ StructEq(pair.x, pair.y) => pair.r = "True"
    /\ (NumericLike(pair.x) /\ NumericLike(pair.y) /\ pair.x.syms = {}
          /\ pair.y.syms = {} /\ allclose(pair.x, pair.y)) => pair.r = "True"
    /\ (~StructEq(pair.x, pair.y) /\ (pair.x.syms # {} \/ pair.y.syms # {}))
         => pair.r = "False"

\* C6: gate equality is reflexive and symmetric, and a deep copy equals the gate
\* it was copied from.
C6_EqReflexiveSymmetric ==
  /\ \A g \in BagToSet(gates) : __eq__(g, g) = "True"
  /\ \A g \in BagToSet(gates), h \in BagToSet(gates) : __eq__(g, h) = __eq__(h, g)
  /\ last.op = "deepcopy" => __eq__(last.new, last.self) = "True"

\* C7: is_parameterized is true exactly when symbolic_params is not empty.
C7_ParameterizedIffParams ==
  last.op = "inspect" =>
    (last.value = "True" <=> symbolic_params(matrix(last.self)) # {})

\* C8: evaluating a gate without free variables succeeds with the warning that
\* the gate is not parameterized and returns a new gate equal to the original.
C8_EvaluateNumericWarns ==
  (last.op = "evaluate" /\ symbolic_params(matrix(last.self)) = {}) =>
    /\ last.status = "ok" /\ last.made
    /\ NotParameterizedWarning \in last.warnings
    /\ __eq__(last.new, last.self) = "True"

KnownKeys(g, symbols_map) ==
  [key \in DOMAIN symbols_map \cap symbolic_params(matrix(g)) |-> symbols_map[key]]

\* C9: evaluating a gate with free variables warns about a mismatch exactly when
\* a key of the mapping names no parameter of the gate, succeeds either way, and
\* returns what evaluating without the unknown keys returns.
C9_MismatchWarning ==
  (last.op = "evaluate" /\ symbolic_params(matrix(last.self)) # {}) =>
    /\ last.status = "ok" /\ last.made
    /\ MismatchWarning \in last.warnings <=>
         (\E key \in DOMAIN last.map : key \notin symbolic_params(matrix(last.self)))
    /\ last.new =
         evaluate(last.self, KnownKeys(last.self, last.map), last.strkeys).made.gate

PlainNumber(e) == e.h = "num" /\ ~e.ex

IdentityFloats == Matrix(2, 2, <<Num(ONE, 0, FALSE), Num(0, 0, FALSE),
                                 Num(0, 0, FALSE), Num(ONE, 0, FALSE)>>)

\* C10 as stated: with a mapping that covers every parameter the result has no
\* parameters and only plain numbers; with a partial mapping exactly the elements
\* with an unmapped variable stay symbolic and the result's symbolic_params is
\* the original set minus the mapped names.
C10_Original ==
  (last.op = "evaluate" /\ last.made /\ symbolic_params(matrix(last.self)) # {}) =>
    LET old == matrix(last.self)
        new == matrix(last.new)
        unmapped == symbolic_params(old) \ DOMAIN last.map
    IN /\ unmapped = {} =>
            (symbolic_params(new) = {} /\ \A i \in DOMAIN new.el : PlainNumber(new.el[i]))
       /\ \A i \in DOMAIN new.el :
            new.el[i].syms # {} <=> old.el[i].syms \ DOMAIN last.map # {}
       /\ symbolic_params(new) = unmapped

\* C10 amended: with a mapping that covers every parameter the result has no
\* parameters and only plain numbers (RX(theta) at theta = 0 is the identity);
\* with a partial mapping an element whose variables are all mapped becomes a
\* plain number, an element that stays symbolic holds only unmapped variables of
\* the original element, and the result's symbolic_params is a subset of the
\* original set minus the mapped names.
C10_EvaluateSubstitutes ==
  (last.op = "evaluate" /\ last.made /\ symbolic_params(matrix(last.self)) # {}) =>
    LET old == matrix(last.self)
        new == matrix(last.new)
        unmapped == symbolic_params(old) \ DOMAIN last.map
    IN /\ unmapped = {} =>
            (symbolic_params(new) = {} /\ \A i \in DOMAIN new.el : PlainNumber(new.el[i]))
       /\ \A i \in DOMAIN new.el :
            /\ old.el[i].syms \subseteq DOMAIN last.map => PlainNumber(new.el[i])
            /\ new.el[i].syms \subseteq old.el[i].syms \ DOMAIN last.map
            /\ new.el[i].syms = {} => PlainNumber(new.el[i])
       /\ symbolic_params(new) \subseteq unmapped
       /\ (old = rx_matrix("theta") /\ "theta" \in DOMAIN last.map
             /\ last.map["theta"] = 0) => new = IdentityFloats

\* a partial mapping left one variable of theta*phi in place
C10_Witness ==
  /\ last.op = "evaluate" /\ last.made
  /\ symbolic_params(matrix(last.self)) = {"theta", "phi"}
  /\ DOMAIN last.map = {"theta"}
  /\ symbolic_params(matrix(last.new)) = {"phi"}

\* the qubits, class and matrix elements a caller can observe on a gate
SameGate(a, b) == a.cls = b.cls /\ a.qubits = b.qubits /\ matrix(a) = matrix(b)

\* the gates other than the returned one are, after evaluate, the gates before it
SourceKept(before, after, self, made, new) ==
  \E kept \in BagToSet(after) :
    /\ SameGate(kept, self)
    /\ symbolic_params(matrix(kept)) = symbolic_params(matrix(self))
    /\ after = IF made THEN Put(Put(Take(before, self), kept), new)
               ELSE Put(Take(before, self), kept)

\* C11: an evaluate call leaves the qubits, matrix elements and symbolic_params
\* of the gate it is called on (and every other live gate) as they were, and
\* returns a new CustomGate that carries the same qubit sequence.
C11_EvaluateNeverMutates ==
  [][last'.op = "evaluate" =>
       /\ SourceKept(gates, gates', last'.self, last'.made, last'.new)
       /\ last'.made
       /\ last'.new.cls = "CustomGate"
       /\ last'.new.qubits = last'.self.qubits]_vars

\* C12: Gate.load of the record g.to_dict(serializable=True) returns a CustomGate
\* that is equal to g under __eq__ and has g's qubits, as a tuple in the same
\* order.
C12_RoundTrip ==
  (last.op = "load" /\ last.serializable) =>
    /\ last.status = "ok" /\ last.made
    /\ last.new.cls = "CustomGate"
    /\ last.new.qubits = last.self.qubits
    /\ __eq__(last.new, last.self) = "True"

\* the names of the free variables of the elements of a matrix
FreeNames(m) == {n \in Names : \E i \in DOMAIN m.el : n \in m.el[i].syms}

\* C13: to_dict returns a record with exactly the keys schema, qubits, matrix and
\* symbolic_params, schema being SCHEMA_VERSION followed by "-gate"; with
\* serializable = True qubits is the list of the qubits in order, matrix a list
\* of 2^n row objects that each hold the 2^n element strings of that row in
\* column order, and symbolic_params a list with each free variable name once;
\* with serializable = False the three keys hold the gate's own qubits, matrix
\* and symbolic_params.
C13_ToDictFormat ==
  last.op = "to_dict" =>
    LET d == last.dict
        m == matrix(last.self)
        side == 2^Len(last.self.qubits)
    IN /\ DOMAIN d = {"schema", "qubits", "matrix", "symbolic_params"}
       /\ d.schema = "zapata-v1-gate"
       /\ IF last.serializable
          THEN /\ d.qubits = [type |-> "list", items |-> last.self.qubits]
               /\ d.matrix.type = "list"
               /\ Len(d.matrix.items) = side
               /\ \A i \in 1..side :
                    /\ DOMAIN d.matrix.items[i] = {"elements"}
                    /\ d.matrix.items[i].elements.type = "list"
                    /\ Len(d.matrix.items[i].elements.items) = side
                    /\ \A j \in 1..side :
                         d.matrix.items[i].elements.items[j] =
                           str(m.el[(i - 1) * side + j])
               /\ d.symbolic_params.type = "list"
               /\ Len(d.symbolic_params.items) = Cardinality(FreeNames(m))
               /\ {d.symbolic_params.items[i] : i \in DOMAIN d.symbolic_params.items}
                    = FreeNames(m)
          ELSE /\ d.qubits = [type |-> "tuple", items |-> last.self.qubits]
               /\ d.matrix = m
               /\ d.symbolic_params = FreeNames(m)

\* the serializable record of the gate [[1, theta], [0, 1]] holds the string of
\* theta in the second place of its first row and of 0.0 in the first place of
\* its second row
C13_Witness ==
  /\ last.op = "to_dict" /\ last.serializable
  /\ Len(last.dict.matrix.items) = 2
  /\ last.dict.matrix.items[1].elements.items[2] = str(Theta)
  /\ last.dict.matrix.items[2].elements.items[1] = str(Evalf(I0))

\* C14: symbolic_params is the union, over all elements of the matrix the gate
\* holds at the time of the access, of the free variables of the element (empty
\* for a numeric gate): each read returns that set, for every live gate.
C14_SymbolicParamsUnion ==
  /\ last.op = "inspect" => last.params = FreeNames(matrix(last.self))
  /\ \A g \in BagToSet(gates) :
       /\ symbolic_params(matrix(g)) = FreeNames(matrix(g))
       /\ (\A i \in DOMAIN matrix(g).el : matrix(g).el[i].h \in {"num", "const"})
            => symbolic_params(matrix(g)) = {}

\* symbolic_params was read on the gate that evaluate returned for theta*phi
\* with theta mapped: the set is that of the new matrix
C14_Witness ==
  /\ last.op = "inspect" /\ last.params = {"phi"}
  /\ matrix(last.self).el[1].h = "lin"

\* the number of calls of _create_matrix that one more use of the matrix
\* property of g costs
FirstAccess(g) == IF g.cls # "CustomGate" /\ g._matrix = None THEN 1 ELSE 0

\* C19: a SpecializedGate is constructed without a matrix; a method that reads
\* the matrix property leaves the object with the matrix that _create_matrix
\* gives, calling _create_matrix only when no matrix was stored yet, so that no
\* object ever has more than one call and a stored matrix never changes.
C19_MatrixBuiltOnce ==
  [][/\ last'.op = "SpecializedGate" =>
          (last'.new._matrix = None /\ last'.new.calls = 0 /\ BagIn(last'.new, gates'))
     /\ (\/ last'.op \in {"inspect", "to_dict", "evaluate", "load"}
         \/ (last'.op = "eq" /\ EqReadsMatrices(last'.self, last'.other))) =>
          \E after \in BagToSet(gates') :
            /\ after.cls = last'.self.cls /\ after.qubits = last'.self.qubits
            /\ after._matrix = matrix(last'.self)
            /\ last'.self.cls # "CustomGate" => after._matrix = _create_matrix(after.cls)
            /\ after.calls = last'.self.calls + FirstAccess(last'.self)
     /\ \A g \in BagToSet(gates') :
          /\ g.calls <= 1
          /\ (g.cls # "CustomGate" /\ g._matrix # None)
               => g._matrix = _create_matrix(g.cls)]_vars

\* the matrix property of an RX gate was read again after its matrix was built
C19_Witness ==
  /\ last.op = "inspect" /\ last.self.cls = "RX"
  /\ last.self._matrix = rx_matrix("theta") /\ last.self.calls = 1
  /\ \E g \in BagToSet(gates) : g.cls = "RX" /\ g.calls = 1

\* the classes of the supported grammar: numbers, symbols, arithmetic,
\* trigonometric and exponential operators
SupportedGrammar == {"Integer", "Float", "Symbol", "Mul", "Add", "cos", "sin", "exp"}

\* C15: expression_tree_from_sympy returns a tree for every expression of the
\* supported grammar and raises NotImplementedError, naming the expression and
\* its type, for every other expression.
C15_ExpressionTreeTotal ==
  pair.t # NoTree =>
    IF ClassOf(pair.x) \in SupportedGrammar
    THEN pair.t.status = "ok"
    ELSE /\ pair.t.status = "NotImplementedError"
         /\ pair.t.expression = pair.x /\ pair.t.type = ClassOf(pair.x)

\* C16: compare_graphs returns true exactly when the two graphs have the same
\* node sequence and the same edge sequence, and so false when one of them has
\* a node or an edge that the other lacks.
C16_CompareGraphsIdentical ==
  call.op = "compare_graphs" =>
    LET graph1 == graphs[call.args[1]]
        graph2 == graphs[call.args[2]]
    IN call.equal <=>
         (graph1.nodes = graph2.nodes /\ edges(graph1) = edges(graph2))

\* C20: weight_graph_edges rejects a multigraph by assertion; for any other
\* graph it returns the graph with the nodes and edges it was given, every edge
\* carrying a weight: the float 1.0 when random_weights is False, a float of
\* [0, 1] when it is True, a float strictly between -1 and -0.5 for
\* 'uniform_-1_-0.5'.
C20_WeightGraphEdges ==
  call.op = "weight_graph_edges" =>
    IF call.before.multi THEN call.status = "AssertionError"
    ELSE /\ call.status = "ok"
         /\ graphs[1].nodes = call.before.nodes
         /\ edges(graphs[1]) = edges(call.before)
         /\ \A e \in EdgeSets(graphs[1].added) :
              LET weight == graphs[1].weight[e]
              IN /\ weight # NoValue
                 /\ EqualsFalse(call.specs) => weight = PyFloat(Cent)
                 /\ EqualsTrue(call.specs) =>
                      weight.type = "float" /\ weight.v \in 0..Cent
                 /\ call.specs = UniformSpec =>
                      /\ weight.type = "float"
                      /\ -Cent < weight.v /\ weight.v < -(Cent \div 2)

Literals(specs) == [i \in DOMAIN specs.args |-> literal_eval(specs.args[i])]

\* a specification string whose tokens are the ones its distribution reads:
\* 'uniform_a_b', 'normal_a_b', 'constant_v', 'choice_a_...' with a value,
\* 'uniformrange' with the int arguments of a range that is not empty; a
\* string that names any other distribution asks for no token
TokensFit(specs) ==
  LET n == Len(specs.args)
      L == Literals(specs)
  IN CASE specs.type_random \in {"uniform", "normal"} -> n = 2
       [] specs.type_random = "constant" -> n = 1
       [] specs.type_random = "choice" -> n >= 1
       [] specs.type_random = "uniformrange" ->
            /\ n \in 1..3
            /\ \A i \in 1..n : L[i].type = "int"
            /\ n = 1 => L[1].v > 0
            /\ n = 2 => L[1].v < L[2].v
            /\ n = 3 => (L[3].v > 0 /\ L[1].v < L[2].v) \/ (L[3].v < 0 /\ L[1].v > L[2].v)
       [] OTHER -> TRUE

\* C18: generate_random_value_from_string returns an int or a float as it is,
\* and returns a value for every specification string whose tokens fit:
\* 'constant_v' gives v, 'choice_a_b_...' one of the values listed,
\* 'uniformrange_a_b' an int x with a <= x < b, 'uniform_a_b' a float between
\* a and b.
C18_RandomValueInDomain ==
  call.op = "generate_random_value_from_string" =>
    LET specs == call.specs
    IN /\ specs.type \in {"int", "float"} => call.status = "ok" /\ call.value = specs
       /\ (specs.type = "str" /\ TokensFit(specs)) =>
            LET L == Literals(specs)
            IN /\ call.status = "ok"
               /\ specs.type_random = "constant" => call.value = L[1]
               /\ specs.type_random = "choice" =>
                    \E i \in DOMAIN L : call.value = L[i]
               /\ (specs.type_random = "uniformrange" /\ Len(L) = 2) =>
                    /\ call.value.type = "int"
                    /\ L[1].v <= call.value.v /\ call.value.v < L[2].v
               /\ specs.type_random = "uniform" =>
                    /\ call.value.type = "float"
                    /\ Min(L[1].v, L[2].v) <= call.value.v
                    /\ call.value.v <= Max(L[1].v, L[2].v)

KnownTypes == {"erdos_renyi", "regular", "complete", "caveman", "ladder", "barbell"}

Joined(G, u, v) == {u, v} \in EdgeSets(G.added)

\* G has exactly the nodes 0 .. n - 1
NodesUpTo(G, n) == Len(G.nodes) = n /\ NodeSet(G) = 0..(n - 1)

\* the graph G belongs to the family that the dictionary asks for
InFamily(graph_specs, G) ==
  LET t == graph_specs.type_graph
      n == IntOf(graph_specs.num_nodes)
  IN CASE t = "complete" ->
            /\ NodesUpTo(G, n)
            /\ \A u, v \in 0..(n - 1) : u # v => Joined(G, u, v)
       [] t = "erdos_renyi" ->
            /\ NodesUpTo(G, n)
            /\ \A e \in EdgeSets(G.added) : Cardinality(e) = 2 /\ e \subseteq 0..(n - 1)
       [] t = "regular" ->
            /\ NodesUpTo(G, n)
            /\ \E d \in 0..(n - 1) :
                 /\ graph_specs.degree.type = "int" => d = IntOf(graph_specs.degree)
                 /\ \A x \in 0..(n - 1) :
                      Cardinality({e \in EdgeSets(G.added) : x \in e}) = d
       [] t = "caveman" ->
            LET l == IntOf(graph_specs.number_of_cliques)
                k == IntOf(graph_specs.size_of_cliques)
            IN /\ NodesUpTo(G, l * k)
               /\ \A u, v \in 0..(l * k - 1) :
                    Joined(G, u, v) <=> (u # v /\ u \div k = v \div k)
       [] t = "ladder" ->
            LET len == IntOf(graph_specs.length_of_ladder)
            IN /\ NodesUpTo(G, 2 * len)
               /\ \A u, v \in 0..(2 * len - 1) :
                    Joined(G, u, v) <=>
                      \/ Abs(u - v) = len
                      \/ Abs(u - v) = 1 /\ u \div len = v \div len
       [] t = "barbell" ->
            LET m == IntOf(graph_specs.number_of_vertices_complete_graph)
            IN /\ NodesUpTo(G, 2 * m)
               /\ \A u, v \in 0..(2 * m - 1) :
                    Joined(G, u, v) <=>
                      /\ u # v
                      /\ u \div m = v \div m \/ {u, v} = {m - 1, m}

\* the dictionary gives its family's own entries as numbers the family can
\* take, and gives random_weights, if at all, as a bool
Usable(graph_specs) ==
  LET t == graph_specs.type_graph
      n == IntOf(graph_specs.num_nodes)
      IsInt(key) == key \in DOMAIN graph_specs /\ graph_specs[key].type = "int"
  IN /\ "random_weights" \in DOMAIN graph_specs => graph_specs.random_weights.type = "bool"
     /\ CASE t = "erdos_renyi" ->
               /\ "probability" \in DOMAIN graph_specs
               /\ graph_specs.probability.type \in {"int", "float"}
          [] t = "regular" ->
               /\ IsInt("degree")
               /\ (n * IntOf(graph_specs.degree)) % 2 = 0
               /\ IntOf(graph_specs.degree) \in 0..(n - 1)
          [] t = "caveman" -> IsInt("number_of_cliques") /\ IsInt("size_of_cliques")
          [] t = "ladder" -> IsInt("length_of_ladder")
          [] t = "barbell" ->
               /\ IsInt("number_of_vertices_complete_graph")
               /\ IntOf(graph_specs.number_of_vertices_complete_graph) >= 2
          [] OTHER -> TRUE

\* C17: for a dictionary that holds type_graph and num_nodes,
\* generate_graph_from_specs dispatches on type_graph: for one of the six
\* families it never raises NotImplementedError, every graph it returns is a
\* graph of that family ('complete': every pair of the num_nodes nodes is
\* joined), and it returns one whenever the entries are usable; for any other
\* type_graph it raises NotImplementedError with the type in its arguments
\* and returns no graph.
C17_DispatchOnTypeGraph ==
  (/\ call.op = "generate_graph_from_specs"
   /\ {"type_graph", "num_nodes"} \subseteq DOMAIN call.specs) =>
    IF call.specs.type_graph \in KnownTypes
    THEN /\ call.status # "NotImplementedError"
         /\ call.status = "ok" => InFamily(call.specs, graphs[1])
         /\ Usable(call.specs) => call.status = "ok"
    ELSE /\ call.status = "NotImplementedError"
         /\ Len(call.args) = 2 /\ call.args[2] = call.specs.type_graph
         /\ graphs[1] = EmptyGraph(FALSE)

\* {"type_graph": "complete", "num_nodes": 4} has given the six edges of K4
C17_Witness ==
  /\ call.op = "generate_graph_from_specs"
  /\ "type_graph" \in DOMAIN call.specs
  /\ call.specs.type_graph = "complete"
  /\ call.status = "ok"
  /\ Len(graphs[1].nodes) = 4
  /\ Len(graphs[1].added) = 6

\* C21: once CustomGate(matrix, qubits) has returned, whatever the caller does
\* to the matrix object and to the qubits sequence it passed, the gate's
\* matrix and the gate's qubits are what they were when the constructor
\* returned, and the gate is still a valid operator on unique qubits.
C21_IsolatedFromArguments ==
  frame.status = "ok" =>
    LET _matrix == heap[frame.gate._matrix].value
        qubits == heap[frame.gate.qubits].value
    IN /\ _matrix = frame.built.matrix
       /\ qubits = frame.built.qubits
       /\ NoRepeat(qubits)
       /\ SquareOfSide(<<_matrix.rows, _matrix.cols>>, Len(qubits))
====
